---- MODULE Spec2Model ----
(***************************************************************************)
(* Model of src/app.py: a Streamlit chat script with a JSON memory file, a *)
(* Gemini model adapter and an autoreply / greeting / send / clear flow.   *)
(*                                                                         *)
(* Text is modelled as a sequence of tokens (a token is an atomic piece of *)
(* text); " " is the whitespace token, concatenation is \o, and Python's   *)
(* substring test `a in b` is IsInfix(a, b).                               *)
(***************************************************************************)
EXTENDS Integers, Sequences, FiniteSets, TLC

VARIABLES
    file,               \* the file conversation_memory.json on disk
    has_session,        \* "conversation" in st.session_state
    conversation,       \* st.session_state.conversation
    user_input,         \* st.session_state.user_input
    user_input_widget,  \* st.session_state.user_input_widget
    last,               \* history: what the last script run did
    cleared,            \* history: the clear block has run in this session
    auto_count,         \* history: autoreplies appended in this session (up to AutoCap)
    io_failures         \* history: file writes and deletes that have failed

vars == <<file, has_session, conversation, user_input, user_input_widget,
          last, cleared, auto_count, io_failures>>

\* Longest conversation the model explores.
MaxConv == 4

\* Longest conversation the adapter is tried on.
MaxHistory == 3

\* Most file operations (writes, deletes) that fail in one behaviour.
MaxIOFailures == 1

\* The count of a session's autoreplies is kept up to this number.
AutoCap == 2

\* Most messages in a snapshot the memory store is tried on.
MaxSnapshot == 2

----------------------------------------------------------------------------
\* Text helpers

Min(a, b) == IF a <= b THEN a ELSE b

WS == " "

RECURSIVE lstrip(_)
lstrip(s) == IF s # <<>> /\ Head(s) = WS THEN lstrip(Tail(s)) ELSE s

RECURSIVE rstrip(_)
rstrip(s) ==
    IF s # <<>> /\ s[Len(s)] = WS THEN rstrip(SubSeq(s, 1, Len(s) - 1)) ELSE s

\* str.strip()
strip(s) == rstrip(lstrip(s))

\* Python `sub in s` on strings
IsInfix(sub, s) ==
    \E i \in 0..(Len(s) - Len(sub)) : SubSeq(s, i + 1, i + Len(sub)) = sub

\* "".join(texts)
RECURSIVE join(_)
join(texts) == IF texts = <<>> THEN <<>> ELSE Head(texts) \o join(Tail(texts))

Digit(d) == CASE d = 0 -> "0" [] d = 1 -> "1" [] d = 2 -> "2" [] d = 3 -> "3"
              [] d = 4 -> "4" [] d = 5 -> "5" [] d = 6 -> "6" [] d = 7 -> "7"
              [] d = 8 -> "8" [] d = 9 -> "9"

\* str(n) for n >= 0, one token per decimal digit
RECURSIVE str(_)
str(n) == IF n < 10 THEN <<Digit(n)>> ELSE str(n \div 10) \o <<Digit(n % 10)>>

----------------------------------------------------------------------------
\* Messages and the memory file

Msg(role, content) == [role |-> role, content |-> content]

\* A JSON object that is no message record: it has neither "role" nor "content".
NotAMessage == [other |-> "x"]

IsMessageRecord(m) == DOMAIN m = {"role", "content"}

\* The file: absent, present but not openable, present with text that is not
\* JSON, present with a JSON value that is no list, or present with a JSON list.
File(kind, data) == [kind |-> kind, data |-> data]

Absent == File("absent", <<>>)

\* os.path.exists(MEMORY_FILE)
exists(f) == f.kind # "absent"

\* JSON text of a string: the quote, the backslash and the newline are
\* written with a backslash before them.
RECURSIVE escape(_)
escape(text) ==
    IF text = <<>> THEN <<>>
    ELSE LET c == Head(text)
         IN  (CASE c = "\"" -> <<"\\", "\"">>
                [] c = "\\" -> <<"\\", "\\">>
                [] c = "\n" -> <<"\\", "n">>
                [] OTHER    -> <<c>>) \o escape(Tail(text))

\* The string a JSON text stands for: a backslash and the token after it make
\* one character.
RECURSIVE unescape(_)
unescape(text) ==
    IF text = <<>> THEN <<>>
    ELSE IF Head(text) = "\\" /\ Len(text) >= 2
    THEN <<IF text[2] = "n" THEN "\n" ELSE text[2]>> \o unescape(Tail(Tail(text)))
    ELSE <<Head(text)>> \o unescape(Tail(text))

\* A message as the file holds it: an object whose "content" is JSON text.
dump_object(m) ==
    IF "content" \in DOMAIN m THEN [m EXCEPT !.content = escape(@)] ELSE m

load_object(o) ==
    IF "content" \in DOMAIN o THEN [o EXCEPT !.content = unescape(@)] ELSE o

\* (variant: strings written as they are)
json_dump_raw(memory) == memory

\* json.dump(memory, f, ensure_ascii=False, indent=2): the document written
json_dump(memory) == [i \in 1..Len(memory) |-> dump_object(memory[i])]

\* json.load(f) of a document that is a list
json_load(data) == [i \in 1..Len(data) |-> load_object(data[i])]

\* (variant: a failed write leaves the file truncated, whatever failed)
save_memory_truncating(f, memory, outcome) ==
    IF outcome = "ok" THEN [kind |-> "list", data |-> json_dump(memory)]
    ELSE [kind |-> "invalid", data |-> <<>>]

load_memory(f) ==
    IF exists(f)
    THEN CASE f.kind = "unreadable" -> <<>>   \* open raises, caught
           [] f.kind = "invalid"    -> <<>>   \* json.load raises, caught
           [] f.kind = "nonlist"    -> <<>>   \* not a list: falls to return []
           [] f.kind = "list"       -> json_load(f.data)
    ELSE <<>>

\* Outcomes of one save: the write succeeds; open(..., "w") raises and the file
\* is untouched; or the file is truncated by open and the dump then fails.
SaveOutcomes == {"ok", "open_fails", "write_fails"}

save_memory(f, memory, outcome) ==
    CASE outcome = "ok"          -> File("list", json_dump(memory))
      [] outcome = "open_fails"  -> f
      [] outcome = "write_fails" -> File("invalid", <<>>)

\* os.remove(MEMORY_FILE) guarded by exists, exceptions swallowed
remove_memory(f, ok) == IF exists(f) /\ ok THEN Absent ELSE f

----------------------------------------------------------------------------
\* The model adapter

SYSTEM_INSTRUCTION == <<"[SYSTEM INSTRUCTION]\n", "You are a proactive, helpful AI agent in a Streamlit app. Analyze previous conversation and provide a summary, suggestion, or next topic.">>

Turn(role, text) == [role |-> role, parts |-> <<[text |-> text]>>]

\* msg.get("role") and msg.get("content", "") on a dict
get_role(msg) == IF "role" \in DOMAIN msg THEN msg.role ELSE "None"
get_content(msg) == IF "content" \in DOMAIN msg THEN msg.content ELSE <<>>

\* (variant: the `if text` filter dropped)
history_turn_keep_empty(msg) ==
    <<Turn(IF get_role(msg) = "user" THEN "user" ELSE "model", get_content(msg))>>

\* One pass of the loop over the conversation (lines 42-47)
history_turn(msg) ==
    LET role == get_role(msg)
        text == get_content(msg)
        g_role == IF role = "user" THEN "user" ELSE "model"
    IN  IF text # <<>> THEN <<Turn(g_role, text)>> ELSE <<>>

RECURSIVE history_turns(_)
history_turns(conv) ==
    IF conv = <<>> THEN <<>>
    ELSE history_turn(Head(conv)) \o history_turns(Tail(conv))

\* The "contents" of the request payload (lines 33-48)
build_contents(user_prompt, conv) ==
    <<Turn("user", SYSTEM_INSTRUCTION)>>
        \o history_turns(conv)
        \o <<Turn("user", user_prompt)>>

\* A response of the endpoint.  sent = FALSE: requests.post raised.  body is
\* response.text; json is what response.json() makes of it: valid = FALSE when
\* the body is no JSON, is_dict = FALSE when the JSON value is no object,
\* candidates is data.get("candidates", []).
\* A candidate: is_dict = FALSE when it is no object; parts is
\* .get("content", {}).get("parts", []).
\* A part: kind "text" (an object with a string "text"), "notext" (an object
\* without "text"), "nondict" (no container: `"text" in p` raises), "nonstr"
\* (an object whose "text" is no string: join raises).
Response(sent, status_code, body, json) ==
    [sent |-> sent, status_code |-> status_code, body |-> body, json |-> json]

Json(valid, is_dict, candidates) ==
    [valid |-> valid, is_dict |-> is_dict, candidates |-> candidates]

Candidate(is_dict, parts) == [is_dict |-> is_dict, parts |-> parts]

Part(kind, text) == [kind |-> kind, text |-> text]

NoJson == Json(FALSE, FALSE, <<>>)

\* What a call of the adapter does: it returns a string, or it raises.
Returned(branch, text) == [raised |-> FALSE, branch |-> branch, text |-> text]
Raised == [raised |-> TRUE, branch |-> "raise", text |-> <<>>]

\* (variant: the reply is read from the last candidate)
extract_text_last_candidate(data) ==
    IF ~data.is_dict THEN Returned("parse_error", <<"Parse error: ", "exc">>)
    ELSE IF data.candidates = <<>>
    THEN Returned("no_candidates", <<"No response from model.">>)
    ELSE LET chosen == data.candidates[Len(data.candidates)] IN
    IF ~chosen.is_dict THEN Returned("parse_error", <<"Parse error: ", "exc">>)
    ELSE LET parts == chosen.parts
             with_text == SelectSeq(parts, LAMBDA p : p.kind \in {"text", "nonstr"})
             texts == [i \in 1..Len(with_text) |-> with_text[i].text]
             joined == strip(join(texts))
    IN  IF \E i \in 1..Len(parts) : parts[i].kind \in {"nondict", "nonstr"}
        THEN Returned("parse_error", <<"Parse error: ", "exc">>)
        ELSE IF joined # <<>> THEN Returned("text", joined)
        ELSE Returned("no_text", <<"No text in response.">>)

\* Lines 65-73: the extraction under try/except
extract_text(data) ==
    IF ~data.is_dict THEN Returned("parse_error", <<"Parse error: ", "exc">>)
    ELSE IF data.candidates = <<>>
    THEN Returned("no_candidates", <<"No response from model.">>)
    ELSE LET first == data.candidates[1] IN
    IF ~first.is_dict THEN Returned("parse_error", <<"Parse error: ", "exc">>)
    ELSE LET parts == first.parts
             with_text == SelectSeq(parts, LAMBDA p : p.kind \in {"text", "nonstr"})
             texts == [i \in 1..Len(with_text) |-> with_text[i].text]
             joined == strip(join(texts))
    IN  IF \E i \in 1..Len(parts) : parts[i].kind = "nondict"
        THEN Returned("parse_error", <<"Parse error: ", "exc">>)
        ELSE IF \E i \in 1..Len(with_text) : with_text[i].kind = "nonstr"
        THEN Returned("parse_error", <<"Parse error: ", "exc">>)
        ELSE IF joined # <<>> THEN Returned("text", joined)
        ELSE Returned("no_text", <<"No text in response.">>)

\* (variant: every 2xx status taken as success)
is_error_status_non2xx(status_code) == status_code \div 100 # 2

\* response.status_code != 200
is_error_status(status_code) == status_code # 200

\* Lines 58-73
handle_response(response) ==
    IF ~response.sent
    THEN Returned("request_error", <<"Request error: ", "exc">>)
    ELSE IF is_error_status(response.status_code)
    THEN Returned("status_error",
                  <<"Error: ">> \o str(response.status_code) \o <<" - ">>
                      \o response.body)
    ELSE IF ~response.json.valid THEN Raised     \* line 64, outside the try
    ELSE extract_text(response.json)

\* generate_gemini_response(user_prompt, conversation) with the endpoint
\* answering `response`: the call as a record of what was sent and what came
\* back.
generate_gemini_response(user_prompt, conv, response) ==
    [prompt   |-> user_prompt,
     conversation |-> conv,
     contents |-> build_contents(user_prompt, conv),
     response |-> response,
     result   |-> handle_response(response)]

----------------------------------------------------------------------------
\* The script: one run of app.py from top to bottom

MARKER == <<"Now that we have a solid understanding">>

GREETING == <<"Hi, welcome! I'll remember our conversation using persistent memory. What would you like to talk about today?">>

is_last_message_autoreply(conv) ==
    IF conv = <<>> THEN FALSE
    ELSE LET last_msg == conv[Len(conv)]
         IN  last_msg.role = "assistant" /\ IsInfix(MARKER, last_msg.content)

\* Lines 117-121: the content of the last user message, "" when there is none
RECURSIVE last_user_message(_)
last_user_message(conv) ==
    IF conv = <<>> THEN <<>>
    ELSE IF conv[Len(conv)].role = "user" THEN conv[Len(conv)].content
    ELSE last_user_message(SubSeq(conv, 1, Len(conv) - 1))

\* Lines 122-126
autoreply_prompt(conv) ==
    <<"Review the previous conversation and send a proactive reply: summarize, continue the last topic, suggest a next step, or connect to a new idea. The last message from the user was: '">>
        \o last_user_message(conv) \o <<"'.">>

\* Lines 106-112: msg["role"] and msg["content"] raise KeyError on a record
\* that lacks them.
can_render(conv) == \A i \in 1..Len(conv) : IsMessageRecord(conv[i])

\* The state a run works on: the session state, the file, and a log of what
\* the run has done so far.
\*   crashed: an exception ended the run        calls: the adapter calls made
\*   auto: autoreplies appended (0 or 1)        greeted: the greeting was appended
\*   did_clear: the clear block ran             sent: the send block completed
\*   saves: the outcomes of the save_memory calls
\*   removed: "none", "ok" or "failed" for os.remove
RunState(conv, input, widget, f) ==
    [conversation |-> conv, user_input |-> input, user_input_widget |-> widget,
     file |-> f, crashed |-> FALSE, stopped |-> FALSE, calls |-> <<>>, auto |-> 0,
     greeted |-> FALSE, did_clear |-> FALSE, sent |-> FALSE, saves |-> <<>>,
     removed |-> "none"]

\* submit_message, the on_change callback of the text input (lines 143-145):
\* it runs before the script when the widget's text has changed.
submit_message(st, text) ==
    [st EXCEPT !.user_input = text, !.user_input_widget = <<>>]

wants_autoreply(st) ==
    /\ st.conversation # <<>>
    /\ can_render(st.conversation)
    /\ ~is_last_message_autoreply(st.conversation)

\* Lines 104-139: the autoreply for a non-empty conversation, the greeting for
\* an empty one.
review_block(st, response, save_outcome) ==
    IF st.conversation # <<>>
    THEN IF ~can_render(st.conversation) THEN [st EXCEPT !.crashed = TRUE]
         ELSE IF is_last_message_autoreply(st.conversation) THEN st
         ELSE LET call == generate_gemini_response(
                              autoreply_prompt(st.conversation), st.conversation,
                              response)
                  conv == Append(st.conversation,
                                 Msg("assistant", call.result.text))
              IN  IF call.result.raised
                  THEN [st EXCEPT !.crashed = TRUE, !.calls = Append(@, call)]
                  ELSE [st EXCEPT !.conversation = conv,
                                  !.calls = Append(@, call),
                                  !.auto = @ + 1,
                                  !.file = save_memory(@, conv, save_outcome),
                                  !.saves = Append(@, save_outcome)]
    ELSE LET conv == Append(st.conversation, Msg("assistant", GREETING))
         IN  [st EXCEPT !.conversation = conv,
                        !.greeted = TRUE,
                        !.file = save_memory(@, conv, save_outcome),
                        !.saves = Append(@, save_outcome)]

\* (variant: the clear drops the last message only)
clear_block_drop_last(st, clear_clicked, remove_ok) ==
    IF st.crashed \/ ~clear_clicked THEN st
    ELSE [st EXCEPT !.conversation = SubSeq(@, 1, Len(@) - 1),
                    !.file = remove_memory(@, remove_ok),
                    !.removed = IF ~exists(st.file) THEN "none"
                                ELSE IF remove_ok THEN "ok" ELSE "failed",
                    !.did_clear = TRUE,
                    !.stopped = TRUE]

\* (variant: the file is left in place)
clear_block_keep_file(st, clear_clicked, remove_ok) ==
    IF st.crashed \/ ~clear_clicked THEN st
    ELSE [st EXCEPT !.conversation = <<>>, !.did_clear = TRUE, !.stopped = TRUE]

\* Lines 159-167
clear_block(st, clear_clicked, remove_ok) ==
    IF st.crashed \/ ~clear_clicked THEN st
    ELSE [st EXCEPT !.conversation = <<>>,
                    !.file = remove_memory(@, remove_ok),
                    !.removed = IF ~exists(st.file) THEN "none"
                                ELSE IF remove_ok THEN "ok" ELSE "failed",
                    !.did_clear = TRUE,
                    !.stopped = TRUE]

\* (variant: text that is blank once trimmed is sent too)
wants_send_blank(st, send_clicked) ==
    /\ ~st.crashed /\ ~st.stopped
    /\ (send_clicked \/ st.user_input # <<>>)

\* The condition of line 169
wants_send(st, send_clicked) ==
    /\ ~st.crashed /\ ~st.stopped
    /\ (send_clicked \/ st.user_input # <<>>)
    /\ strip(st.user_input) # <<>>

\* (variant: the conversation is saved once the user message is appended)
send_block_save_first(st, send_clicked, response, save_outcome) ==
    IF ~wants_send(st, send_clicked) THEN st
    ELSE LET user_msg == strip(st.user_input)
             conv1 == Append(st.conversation, Msg("user", user_msg))
             call == generate_gemini_response(user_msg, conv1, response)
             conv2 == Append(conv1, Msg("assistant", call.result.text))
         IN  IF call.result.raised
             THEN [st EXCEPT !.conversation = conv1,
                             !.crashed = TRUE,
                             !.calls = Append(@, call),
                             !.file = save_memory(@, conv1, save_outcome)]
             ELSE [st EXCEPT !.conversation = conv2,
                             !.calls = Append(@, call),
                             !.file = save_memory(@, conv2, save_outcome),
                             !.saves = Append(@, save_outcome),
                             !.sent = TRUE,
                             !.user_input = <<>>]

\* (variant: the adapter gets the conversation without the new user message)
send_block_history_only(st, send_clicked, response, save_outcome) ==
    IF ~wants_send(st, send_clicked) THEN st
    ELSE LET user_msg == strip(st.user_input)
             conv1 == Append(st.conversation, Msg("user", user_msg))
             call == generate_gemini_response(user_msg, st.conversation, response)
             conv2 == Append(conv1, Msg("assistant", call.result.text))
         IN  IF call.result.raised
             THEN [st EXCEPT !.conversation = conv1,
                             !.crashed = TRUE,
                             !.calls = Append(@, call)]
             ELSE [st EXCEPT !.conversation = conv2,
                             !.calls = Append(@, call),
                             !.file = save_memory(@, conv2, save_outcome),
                             !.saves = Append(@, save_outcome),
                             !.sent = TRUE,
                             !.user_input = <<>>]

\* Lines 169-177
send_block(st, send_clicked, response, save_outcome) ==
    IF ~wants_send(st, send_clicked) THEN st
    ELSE LET user_msg == strip(st.user_input)
             conv1 == Append(st.conversation, Msg("user", user_msg))
             call == generate_gemini_response(user_msg, conv1, response)
             conv2 == Append(conv1, Msg("assistant", call.result.text))
         IN  IF call.result.raised
             THEN [st EXCEPT !.conversation = conv1,
                             !.crashed = TRUE,
                             !.calls = Append(@, call)]
             ELSE [st EXCEPT !.conversation = conv2,
                             !.calls = Append(@, call),
                             !.file = save_memory(@, conv2, save_outcome),
                             !.saves = Append(@, save_outcome),
                             !.sent = TRUE,
                             !.user_input = <<>>]

----------------------------------------------------------------------------
\* The environment: what the user types, what the endpoint answers, what the
\* memory file holds before the first page load.

UserTexts == { <<" ">>, <<" ", "hello", " ">> }

TextCandidate(text) == Candidate(TRUE, <<Part("text", text)>>)

TransportFailure == Response(FALSE, 0, <<>>, NoJson)

\* The answers the adapter is tried on: one or more for each way a call can end.
AdapterResponses ==
    { TransportFailure,
      Response(TRUE, 500, <<"oops">>, NoJson),
      Response(TRUE, 404, <<>>, NoJson),
      Response(TRUE, 201, <<"{}">>, Json(TRUE, TRUE, <<TextCandidate(<<"fine">>)>>)),
      Response(TRUE, 200, <<"<html>">>, NoJson),
      Response(TRUE, 200, <<"[]">>, Json(TRUE, FALSE, <<>>)),
      Response(TRUE, 200, <<"{}">>, Json(TRUE, TRUE, <<>>)),
      Response(TRUE, 200, <<"{..}">>,
               Json(TRUE, TRUE, <<Candidate(FALSE, <<>>)>>)),
      Response(TRUE, 200, <<"{..}">>,
               Json(TRUE, TRUE, <<Candidate(TRUE, <<Part("nondict", <<>>)>>)>>)),
      Response(TRUE, 200, <<"{..}">>,
               Json(TRUE, TRUE, <<Candidate(TRUE, <<Part("nonstr", <<>>)>>)>>)),
      Response(TRUE, 200, <<"{..}">>,
               Json(TRUE, TRUE, <<Candidate(TRUE, <<>>)>>)),
      Response(TRUE, 200, <<"{..}">>,
               Json(TRUE, TRUE,
                    <<Candidate(TRUE, <<Part("text", <<" ">>), Part("notext", <<>>)>>),
                      TextCandidate(<<"second">>)>>)),
      Response(TRUE, 200, <<"{..}">>,
               Json(TRUE, TRUE,
                    <<Candidate(TRUE, <<Part("text", <<" ", "Sure">>),
                                        Part("notext", <<>>),
                                        Part("text", <<"thing", " ">>)>>),
                      TextCandidate(<<"second">>)>>)),
      Response(TRUE, 200, <<"{..}">>,
               Json(TRUE, TRUE, <<TextCandidate(MARKER \o <<"...">>)>>)) }

\* The answers the script is run on: a reply, a reply that carries the marker
\* phrase, a status error, and a success status with a body that is no JSON.
Responses ==
    { Response(TRUE, 200, <<"{..}">>,
               Json(TRUE, TRUE, <<TextCandidate(<<"Sure">>)>>)),
      Response(TRUE, 200, <<"{..}">>,
               Json(TRUE, TRUE, <<TextCandidate(MARKER \o <<"...">>)>>)),
      Response(TRUE, 500, <<"oops">>, NoJson),
      Response(TRUE, 200, <<"<html>">>, NoJson) }

InitialFiles ==
    { Absent,
      File("unreadable", <<>>),
      File("invalid", <<>>),
      File("nonlist", <<>>),
      File("list", <<>>),
      File("list", <<NotAMessage>>),
      File("list", json_dump(<<Msg("user", <<"hello">>), Msg("assistant", <<>>)>>)),
      File("list", json_dump(<<Msg("user", <<"hello">>), Msg("assistant", MARKER)>>)) }

\* What `last` records of a run: op is "load" for the first run of a session
\* and "rerun" for a later one; after_clear tells whether the run before it
\* cleared ("no", or that run's `removed`); typed tells whether text that is
\* not blank was committed for this run; before is the conversation the run
\* started with; the rest is the run's log.
NoRun ==
    [op |-> "none", after_clear |-> "no", typed |-> FALSE, before |-> <<>>,
     crashed |-> FALSE, calls |-> <<>>, auto |-> 0, greeted |-> FALSE,
     did_clear |-> FALSE, sent |-> FALSE, saves |-> <<>>, removed |-> "none"]

Init ==
    /\ file \in InitialFiles
    /\ has_session = FALSE
    /\ conversation = <<>>
    /\ user_input = <<>>
    /\ user_input_widget = <<>>
    /\ last = NoRun
    /\ cleared = FALSE
    /\ auto_count = 0
    /\ io_failures = 0

\* The outcomes a save can have when `failed` file operations have failed so far
Outcomes(failed) == IF failed < MaxIOFailures THEN SaveOutcomes ELSE {"ok"}

\* The file operations of the run that failed
failures(st) ==
    Cardinality({i \in 1..Len(st.saves) : st.saves[i] # "ok"})
        + (IF st.removed = "failed" THEN 1 ELSE 0)

\* The run has ended in st: the session state and the file are what it left.
Finish(new_session, typed, before, st) ==
    /\ Len(st.conversation) <= MaxConv
    /\ file' = st.file
    /\ has_session' = TRUE
    /\ conversation' = st.conversation
    /\ user_input' = st.user_input
    /\ user_input_widget' = st.user_input_widget
    /\ last' = [op |-> IF new_session THEN "load" ELSE "rerun",
                after_clear |-> IF last.did_clear THEN last.removed ELSE "no",
                typed |-> typed,
                before |-> before,
                crashed |-> st.crashed, calls |-> st.calls, auto |-> st.auto,
                greeted |-> st.greeted, did_clear |-> st.did_clear,
                sent |-> st.sent, saves |-> st.saves, removed |-> st.removed]
    /\ cleared' = ((~new_session /\ cleared) \/ st.did_clear)
    /\ auto_count' = Min((IF new_session THEN 0 ELSE auto_count) + st.auto, AutoCap)
    /\ io_failures' = io_failures + failures(st)

\* One run of the script.  new_session: session_state is empty, so lines 79-84
\* load the conversation; otherwise the callback runs first when text was
\* typed.  The endpoint's answers and the outcomes of the file operations are
\* chosen where the run comes to need them.
ScriptRun(new_session, typed, text, send_clicked, clear_clicked) ==
    \E st0 \in { IF new_session
                  THEN RunState(load_memory(file), <<>>, <<>>, file)
                  ELSE RunState(conversation, user_input, user_input_widget, file) } :
    \E st1 \in { IF typed THEN submit_message(st0, text) ELSE st0 } :
    \E r1 \in IF wants_autoreply(st1) THEN Responses ELSE {TransportFailure} :
    \E s1 \in IF st1.conversation = <<>>
                  \/ (wants_autoreply(st1) /\ ~handle_response(r1).raised)
               THEN Outcomes(io_failures) ELSE {"ok"} :
    \E st2 \in { review_block(st1, r1, s1) } :
    \E remove_ok \in IF clear_clicked /\ ~st2.crashed /\ exists(st2.file)
                      THEN {TRUE} \cup {io_failures + failures(st2) >= MaxIOFailures}
                      ELSE {TRUE} :
    \E st3 \in { clear_block(st2, clear_clicked, remove_ok) } :
    \* (a run that would leave more than MaxConv messages ends here)
    Len(st3.conversation) + (IF wants_send(st3, send_clicked) THEN 1 ELSE 0)
        <= MaxConv /\
    \E r2 \in IF wants_send(st3, send_clicked)
               THEN Responses ELSE {TransportFailure} :
    \E s2 \in IF wants_send(st3, send_clicked) /\ ~handle_response(r2).raised
               THEN Outcomes(io_failures + failures(st3)) ELSE {"ok"} :
    \E st4 \in { send_block(st3, send_clicked, r2, s2) } :
        Finish(new_session, typed /\ strip(text) # <<>>, st1.conversation, st4)

\* The page is opened or reloaded: a new session, and its first run.
PageLoad == ScriptRun(TRUE, FALSE, <<>>, FALSE, FALSE)

\* Text is typed and committed with Enter.
CommitText ==
    /\ has_session
    /\ \E text \in UserTexts : ScriptRun(FALSE, TRUE, text, FALSE, FALSE)

\* "Send" is clicked with nothing newly typed.
ClickSend == has_session /\ ScriptRun(FALSE, FALSE, <<>>, TRUE, FALSE)

\* Text is typed and "Send" is clicked: both reach the same run.
CommitAndSend ==
    /\ has_session
    /\ \E text \in UserTexts : ScriptRun(FALSE, TRUE, text, TRUE, FALSE)

\* "Clear memory" is clicked with nothing newly typed.
ClickClear == has_session /\ ScriptRun(FALSE, FALSE, <<>>, FALSE, TRUE)

\* Text is typed and "Clear memory" is clicked: both reach the same run.
CommitAndClear ==
    /\ has_session
    /\ \E text \in UserTexts : ScriptRun(FALSE, TRUE, text, FALSE, TRUE)

Next ==
    \/ PageLoad
    \/ CommitText
    \/ ClickSend
    \/ CommitAndSend
    \/ ClickClear
    \/ CommitAndClear

Spec == Init /\ [][Next]_vars

----------------------------------------------------------------------------
\* The adapter on its own: generate_gemini_response applied to conversations
\* and prompts drawn from bounded sets, with every kind of answer.

AdapterMessages ==
    { Msg("user", <<"a">>), Msg("assistant", <<"b">>),
      Msg("user", <<>>), Msg("assistant", <<>>) }

AdapterConversations ==
    UNION { [1..n -> AdapterMessages] : n \in 0..MaxHistory }

AdapterPrompts == { <<"c">>, <<" ", "hello", " ">> }

AdapterInit ==
    /\ file = Absent
    /\ has_session = TRUE
    /\ conversation \in AdapterConversations
    /\ user_input = <<>>
    /\ user_input_widget = <<>>
    /\ last = NoRun
    /\ cleared = FALSE
    /\ auto_count = 0
    /\ io_failures = 0

CallAdapter ==
    /\ \E prompt \in AdapterPrompts, response \in AdapterResponses :
           last' = [NoRun EXCEPT
                       !.op = "call",
                       !.before = conversation,
                       !.calls = <<generate_gemini_response(prompt, conversation,
                                                            response)>>]
    /\ UNCHANGED <<file, has_session, conversation, user_input,
                   user_input_widget, cleared, auto_count, io_failures>>

AdapterNext == CallAdapter

AdapterSpec == AdapterInit /\ [][AdapterNext]_vars

----------------------------------------------------------------------------
\* The script started with no memory file.

FreshInit == Init /\ file = Absent

FreshSpec == FreshInit /\ [][Next]_vars

----------------------------------------------------------------------------
\* The memory store on its own: load_memory, then save_memory of what was
\* loaded, then load_memory again, from well-formed snapshots.

\* Message objects as a well-formed file holds them: the content is JSON text,
\* where a backslash is always followed by the character it escapes.
StoreObjects ==
    { Msg("user", <<"hello">>),
      Msg("assistant", <<>>),
      Msg("assistant", <<"say", " ", "\\", "\"", "hi", "\\", "\"">>),
      Msg("user", <<"a", "\\", "n", "b">>),
      Msg("user", <<"c:", "\\", "\\", "n">>),
      Msg("assistant", <<"1", "\\", "/", "2">>) }

StoreFiles ==
    { File("list", doc) :
          doc \in UNION { [1..n -> StoreObjects] : n \in 0..MaxSnapshot } }

StoreInit ==
    /\ file \in StoreFiles
    /\ has_session = FALSE
    /\ conversation = <<>>
    /\ user_input = <<>>
    /\ user_input_widget = <<>>
    /\ last = NoRun
    /\ cleared = FALSE
    /\ auto_count = 0
    /\ io_failures = 0

\* conversation = load_memory(); last.before keeps what the first load gave.
StoreLoad ==
    /\ last.op \in {"none", "stored"}
    /\ conversation' = load_memory(file)
    /\ last' = IF last.op = "none"
               THEN [last EXCEPT !.op = "loaded", !.before = load_memory(file)]
               ELSE [last EXCEPT !.op = "reloaded"]
    /\ UNCHANGED <<file, has_session, user_input, user_input_widget, cleared,
                   auto_count, io_failures>>

\* save_memory(conversation)
StoreSave ==
    /\ last.op = "loaded"
    /\ \E outcome \in SaveOutcomes :
           /\ file' = save_memory(file, conversation, outcome)
           /\ last' = [last EXCEPT !.op = "stored", !.saves = <<outcome>>]
    /\ UNCHANGED <<has_session, conversation, user_input, user_input_widget,
                   cleared, auto_count, io_failures>>

StoreNext == StoreLoad \/ StoreSave

StoreSpec == StoreInit /\ [][StoreNext]_vars

----------------------------------------------------------------------------
\* Properties

Calls == {last.calls[i] : i \in 1..Len(last.calls)}

GreetingOnly == <<Msg("assistant", GREETING)>>

\* C1: a run that completes a submit leaves the conversation as it found it
\* plus exactly two messages, a user message and then the assistant message
\* carrying the adapter's text for that submit.
C1_SubmitAppendsExactlyTwo ==
    last.sent =>
        /\ Len(conversation) = Len(last.before) + 2
        /\ SubSeq(conversation, 1, Len(last.before)) = last.before
        /\ conversation[Len(conversation) - 1].role = "user"
        /\ conversation[Len(conversation)] =
               Msg("assistant", last.calls[Len(last.calls)].result.text)

\* C2: within one session the autoreply path appends at most one message.
C2_AtMostOneAutoreplyPerSession == auto_count <= 1

\* A rerun that reached line 169 with a user_input that is empty once trimmed
EmptySubmitRun ==
    /\ last.op = "rerun"
    /\ ~last.crashed /\ ~last.did_clear /\ ~last.sent
    /\ strip(user_input) = <<>>

\* C3: an empty or whitespace-only submit changes nothing: the conversation is
\* as before, no snapshot is written and the endpoint is not called.
C3_EmptySubmitIsNoOp ==
    EmptySubmitRun =>
        /\ conversation = last.before
        /\ last.saves = <<>>
        /\ last.calls = <<>>

\* C4: no call of the adapter raises, whatever the endpoint answers, and the
\* string it returns is the content of the assistant message appended.
C4_AdapterNeverRaises ==
    \A call \in Calls :
        /\ ~call.result.raised
        /\ ~last.did_clear =>
               \E i \in 1..Len(conversation) :
                   conversation[i] = Msg("assistant", call.result.text)

\* The payload the claim describes for a conversation and a prompt: the
\* instruction turn, one turn for each message with content, in order, and the
\* prompt's turn.
IsExpectedContents(contents, conv, prompt) ==
    LET kept == SelectSeq([i \in 1..Len(conv) |-> i],
                          LAMBDA i : conv[i].content # <<>>)
    IN  /\ Len(contents) = Len(kept) + 2
        /\ contents[1] = [role |-> "user",
                          parts |-> <<[text |-> SYSTEM_INSTRUCTION]>>]
        /\ \A k \in 1..Len(kept) :
               /\ conv[kept[k]].role = "user" => contents[k + 1].role = "user"
               /\ conv[kept[k]].role = "assistant" => contents[k + 1].role = "model"
               /\ contents[k + 1].parts = <<[text |-> conv[kept[k]].content]>>
        /\ contents[Len(contents)] = [role |-> "user",
                                      parts |-> <<[text |-> prompt]>>]

\* C5: the payload of every call is the instruction turn, then the messages
\* with non-empty content in conversation order with user -> "user" and
\* assistant -> "model", then the prompt under "user"; nothing else.
C5_PayloadOrder ==
    \A call \in Calls :
        IsExpectedContents(call.contents, call.conversation, call.prompt)

\* C5 witness: a call on a conversation with a user message, an assistant
\* message and a message of empty content.
C5_Witness ==
    \E call \in Calls :
        /\ \E i \in 1..Len(call.conversation) :
               call.conversation[i] = Msg("user", <<"a">>)
        /\ \E i \in 1..Len(call.conversation) :
               call.conversation[i] = Msg("assistant", <<"b">>)
        /\ \E i \in 1..Len(call.conversation) :
               call.conversation[i].content = <<>>
        /\ Len(call.contents) = Len(call.conversation) + 1

\* C6: with no failed file operation, the snapshot mirrors the conversation
\* whenever no run is in progress: a present file holds the conversation, an
\* absent file goes with an empty conversation.
C6_SnapshotMirrorsConversation ==
    (has_session /\ io_failures = 0) =>
        IF exists(file) THEN file = File("list", json_dump(conversation))
        ELSE conversation = <<>>

\* The first run of a session that follows a run whose clear block ran
FreshSessionAfterClear == last.op = "load" /\ last.after_clear # "no"

AllSavesOk == \A i \in 1..Len(last.saves) : last.saves[i] = "ok"

WellFormedMessage(m) ==
    /\ IsMessageRecord(m)
    /\ m.role \in {"user", "assistant"}

\* C8: what load_memory returns at a session's start is empty unless the file
\* holds a sequence of message records.
C8_LoadOnlyWellFormed ==
    last.op = "load" =>
        \A i \in 1..Len(last.before) : WellFormedMessage(last.before[i])

\* C9: once the clear block has run in a session, the conversation stays
\* empty and no later run of the session writes the snapshot.
C9_ClearedIsTerminal ==
    cleared =>
        /\ conversation = <<>>
        /\ ~last.did_clear => last.saves = <<>>

\* The reply is the status-error string for this status code and body.
IsStatusErrorText(text, status_code, body) ==
    /\ text # <<>> /\ Head(text) = "Error: "
    /\ IsInfix(str(status_code), text)
    /\ IsInfix(body, text)

\* C10 as amended: a response gets the status-error reply, with its status
\* code and its body, exactly when its status code is not 200.
C10_StatusErrorIffNot200 ==
    \A call \in Calls :
        call.response.sent =>
            (call.response.status_code # 200
                <=> /\ ~call.result.raised
                    /\ IsStatusErrorText(call.result.text,
                                         call.response.status_code,
                                         call.response.body))

\* C10 witness: status 500 with body "oops" answered by a text with both.
C10_Witness ==
    \E call \in Calls :
        /\ call.response.sent
        /\ call.response.status_code = 500
        /\ call.response.body = <<"oops">>
        /\ IsInfix(<<"5", "0", "0">>, call.result.text)
        /\ IsInfix(<<"oops">>, call.result.text)

\* C10 as stated: the status-error reply exactly for the statuses outside 2xx.
C10_Original ==
    \A call \in Calls :
        call.response.sent =>
            (call.response.status_code \div 100 # 2
                <=> /\ ~call.result.raised
                    /\ IsStatusErrorText(call.result.text,
                                         call.response.status_code,
                                         call.response.body))

\* A response with a success status whose body has the shape the endpoint
\* documents: an object whose first candidate, if any, is an object whose
\* parts are objects with a string "text" or without "text".
IsSuccessBody(response) ==
    /\ response.sent
    /\ response.status_code = 200
    /\ response.json.valid
    /\ response.json.is_dict
    /\ response.json.candidates # <<>> =>
          /\ response.json.candidates[1].is_dict
          /\ \A i \in 1..Len(response.json.candidates[1].parts) :
                response.json.candidates[1].parts[i].kind \in {"text", "notext"}

\* The text fragments of a candidate's parts, one after the other.
RECURSIVE Fragments(_)
Fragments(parts) ==
    IF parts = <<>> THEN <<>>
    ELSE (IF Head(parts).kind = "text" THEN Head(parts).text ELSE <<>>)
             \o Fragments(Tail(parts))

\* Candidates a body may carry after the first one, well formed or not.
LaterCandidates ==
    { TextCandidate(<<"second">>),
      Candidate(FALSE, <<>>),
      Candidate(TRUE, <<Part("nonstr", <<>>)>>),
      Candidate(TRUE, <<>>) }

\* C11: for a success status with a body of the documented shape, no
\* candidates gives exactly "No response from model."; a first candidate
\* whose concatenated, trimmed texts are empty gives "No text in response.";
\* otherwise the reply is the first candidate's text fragments concatenated
\* and trimmed. What follows the first candidate changes nothing.
C11_SuccessPrecedence ==
    \A call \in Calls :
        IsSuccessBody(call.response) =>
            LET candidates == call.response.json.candidates IN
            /\ ~call.result.raised
            /\ call.result.text =
                  IF candidates = <<>> THEN <<"No response from model.">>
                  ELSE IF strip(Fragments(candidates[1].parts)) = <<>>
                  THEN <<"No text in response.">>
                  ELSE strip(Fragments(candidates[1].parts))
            /\ candidates # <<>> =>
                  \A later \in LaterCandidates :
                      handle_response(
                          [call.response EXCEPT
                              !.json.candidates = <<candidates[1], later>>])
                        = call.result

\* C11 witness: two candidates, the first with two text fragments around a
\* part without text; the reply is the first one's fragments, trimmed.
C11_Witness ==
    \E call \in Calls :
        /\ IsSuccessBody(call.response)
        /\ Len(call.response.json.candidates) = 2
        /\ Len(call.response.json.candidates[1].parts) = 3
        /\ call.result.text = <<"Sure", "thing">>

\* Every save of the run that ends in the given log failed, and the run did
\* not clear.
EverySaveFailed(run) ==
    /\ run.op \in {"load", "rerun"}
    /\ run.saves # <<>>
    /\ \A i \in 1..Len(run.saves) : run.saves[i] # "ok"
    /\ ~run.did_clear

\* The blocks of the run that saved ran to their end: the conversation is the
\* one the run started with plus what they appended.
KeepsAppended(run, conv) ==
    LET n == Len(run.before) IN
    /\ run.greeted \/ run.auto = 1 \/ run.sent
    /\ Len(conv) >= n + Len(run.saves)
    /\ SubSeq(conv, 1, n) = run.before
    /\ run.greeted => conv[n + 1] = Msg("assistant", GREETING)
    /\ run.auto = 1 => conv[n + 1] = Msg("assistant", run.calls[1].result.text)
    /\ run.sent =>
          /\ ~run.crashed
          /\ conv[Len(conv) - 1].role = "user"
          /\ conv[Len(conv)] =
                Msg("assistant", run.calls[Len(run.calls)].result.text)

\* C12 as amended: a run whose saves fail still appends its messages, and a
\* later session start loads the previous snapshot when the file could not be
\* opened for writing, and an empty conversation when the write failed after
\* the file was opened.
C12_FailedSaveKeepsRunning ==
    [][ EverySaveFailed(last') =>
          /\ KeepsAppended(last', conversation')
          /\ (\A i \in 1..Len(last'.saves) : last'.saves[i] = "open_fails")
                => file' = file
          /\ (\E i \in 1..Len(last'.saves) : last'.saves[i] = "write_fails")
                => exists(file') /\ load_memory(file') = <<>> ]_vars

\* C12 witness: a submit whose save failed after the file was opened.
C12_Witness ==
    /\ EverySaveFailed(last)
    /\ last.sent
    /\ last.saves = <<"write_fails">>
    /\ Len(conversation) = Len(last.before) + 2
    /\ load_memory(file) = <<>>

\* C12 as stated: after a run whose saves fail, a later session start loads
\* what it would have loaded before the run.
C12_Original ==
    [][ EverySaveFailed(last') =>
          /\ KeepsAppended(last', conversation')
          /\ load_memory(file') = load_memory(file) ]_vars

\* C13: load, save of the loaded conversation, load again: when the save
\* succeeds, the second load gives the conversation the first one gave, the
\* same messages in the same order.
C13_SaveLoadRoundTrip ==
    (last.op = "reloaded" /\ last.saves = <<"ok">>) =>
        /\ conversation = last.before
        /\ file = File("list", json_dump(last.before))

\* C13 witness: a round trip of two messages whose contents hold a quote, a
\* backslash and a newline.
C13_Witness ==
    /\ last.op = "reloaded"
    /\ last.saves = <<"ok">>
    /\ Len(conversation) = 2
    /\ conversation[1].content = <<"say", " ", "\"", "hi", "\"">>
    /\ conversation[2].content = <<"c:", "\\", "n">>

HasUserMessage(conv) == \E i \in 1..Len(conv) : conv[i].role = "user"

\* C14: a run appends an autoreply only to a conversation that is not empty,
\* holds a user message and does not end with an autoreply.
C14_AutoreplyNeedsUserMessage ==
    last.auto >= 1 =>
        /\ last.before # <<>>
        /\ HasUserMessage(last.before)
        /\ ~is_last_message_autoreply(last.before)

\* The run of the given log left the conversation ending with the autoreply it
\* appended.
EndsWithOwnAutoreply(run, conv) ==
    /\ run.auto = 1
    /\ ~run.sent /\ ~run.did_clear
    /\ conv = Append(run.before, Msg("assistant", run.calls[1].result.text))

\* C15: no run appends an autoreply right after the autoreply of the run
\* before it, so no two messages of the autoreply path are next to each other.
C15_NoAdjacentAutoreplies ==
    [][ (EndsWithOwnAutoreply(last, conversation) /\ last'.before = conversation)
            => last'.auto = 0 ]_vars

IsPrefix(s, t) == Len(s) <= Len(t) /\ SubSeq(t, 1, Len(s)) = s

\* C16: a rerun of the script that does not clear leaves the conversation it
\* found as a prefix of the one it leaves; a rerun that clears leaves it empty.
C16_AppendOnlyBetweenClears ==
    [][ last'.op = "rerun" =>
          IF last'.did_clear THEN conversation' = <<>>
          ELSE IsPrefix(conversation, conversation') ]_vars

\* C16 witness: a rerun that found messages and appended an autoreply, a user
\* message and a reply after them.
C16_Witness ==
    /\ last.op = "rerun"
    /\ ~last.did_clear
    /\ last.auto = 1 /\ last.sent
    /\ Len(last.before) >= 1
    /\ Len(conversation) = Len(last.before) + 3
    /\ IsPrefix(last.before, conversation)

\* A message with content: a user message holds trimmed text that is not
\* empty, an assistant message a string that is not empty.
HasContent(m) ==
    /\ m.content # <<>>
    /\ m.role = "user" => strip(m.content) = m.content

\* C17: starting without a memory file, every message of the conversation
\* and of the snapshot has content, and every string the adapter returns,
\* reply or error text, is non-empty.
C17_NoEmptyContent ==
    /\ \A i \in 1..Len(conversation) : HasContent(conversation[i])
    /\ \A i \in 1..Len(load_memory(file)) : HasContent(load_memory(file)[i])
    /\ \A call \in Calls :
          \A response \in AdapterResponses :
              LET result == generate_gemini_response(
                                call.prompt, call.conversation, response).result
              IN  ~result.raised => result.text # <<>>

\* C17 witness: a conversation and a snapshot that hold the greeting, a user
\* message and the error text of a status 500 as its reply.
C17_Witness ==
    /\ last.sent
    /\ file = File("list", json_dump(conversation))
    /\ \E i \in 1..Len(conversation) : conversation[i] = Msg("assistant", GREETING)
    /\ conversation[Len(conversation) - 1] = Msg("user", <<"hello">>)
    /\ conversation[Len(conversation)] =
          Msg("assistant", <<"Error: ", "5", "0", "0", " - ", "oops">>)
    /\ \A i \in 1..Len(conversation) : HasContent(conversation[i])

\* The texts a submit can append: the committed texts, trimmed.
SubmittedTexts == { strip(text) : text \in UserTexts } \ {<<>>}

\* A run whose send block appended the user message and then ended in the
\* exception of the adapter.
SubmitRaised ==
    /\ last.op \in {"load", "rerun"}
    /\ last.crashed
    /\ last.calls # <<>>
    /\ Len(conversation) = Len(last.before) + last.auto + 1
    /\ conversation[Len(conversation)].role = "user"

\* C18: the call made for a submitted user message gets the conversation
\* that ends with that message and the same text as prompt, so the contents
\* of its request end with two "user" turns that carry the trimmed text.
C18_SubmitPayloadEndsWithTextTwice ==
    (last.sent \/ SubmitRaised) =>
        LET call == last.calls[Len(last.calls)]
            at == IF last.sent THEN Len(conversation) - 1 ELSE Len(conversation)
            user_msg == conversation[at]
            n == Len(call.contents)
        IN  /\ user_msg.role = "user"
            /\ user_msg.content \in SubmittedTexts
            /\ call.conversation = SubSeq(conversation, 1, at)
            /\ call.prompt = user_msg.content
            /\ n >= 3
            /\ call.contents[n - 1] = Turn("user", user_msg.content)
            /\ call.contents[n] = Turn("user", user_msg.content)

\* C18 witness: a submit of " hello " whose request ends with two "user"
\* turns "hello", after the turns of the greeting and of an autoreply.
C18_Witness ==
    /\ last.sent
    /\ last.typed
    /\ last.auto = 1
    /\ Len(last.calls) = 2
    /\ Len(last.calls[2].contents) >= 5
    /\ last.calls[2].prompt = <<"hello">>
    /\ last.calls[2].contents[Len(last.calls[2].contents)]
          = Turn("user", <<"hello">>)
    /\ last.calls[2].contents[Len(last.calls[2].contents) - 1]
          = Turn("user", <<"hello">>)

\* Every user message of the sequence has an assistant message right after it.
EveryUserAnswered(snapshot) ==
    \A i \in 1..Len(snapshot) :
        snapshot[i].role = "user" =>
            i < Len(snapshot) /\ snapshot[i + 1].role = "assistant"

\* C19: starting without a memory file, a snapshot on disk is a non-empty
\* list that ends with an assistant message and in which every user message
\* has an assistant message right after it.
C19_SnapshotEndsWithReply ==
    file.kind = "list" =>
        LET snapshot == load_memory(file) IN
        /\ snapshot # <<>>
        /\ snapshot[Len(snapshot)].role = "assistant"
        /\ EveryUserAnswered(snapshot)

\* C19 witness: the snapshot written by a completed submit: the greeting, an
\* autoreply, the user message and its reply.
C19_Witness ==
    /\ file.kind = "list"
    /\ last.sent
    /\ last.saves # <<>>
    /\ last.saves[Len(last.saves)] = "ok"
    /\ load_memory(file) = conversation
    /\ Len(conversation) = 4
    /\ conversation[3].role = "user"
    /\ conversation[4].role = "assistant"

\* C20: a text is appended once at most and a clear discards it: after a run
\* that cleared, or that appended the pending text as a user message and
\* ended in an exception, a rerun for which no text is committed appends no
\* user message.
C20_PendingTextAppendedOnce ==
    [][ (/\ last'.op = "rerun"
         /\ ~last'.typed
         /\ last.did_clear \/ SubmitRaised)
            => ~(last'.sent \/ SubmitRaised') ]_vars

====
